---- MODULE Spec2Model ----
(***************************************************************************)
(* A model of src/app.py (PDF -> audiobook): extract_text, the generator   *)
(* chunk_text, and the driver pdf_to_audiobook.                            *)
(*                                                                         *)
(* A Python str is a sequence of one-character strings.  The generator     *)
(* chunk_text is a coroutine: it only runs while its consumer is blocked   *)
(* in next() (pc = "next" in the pipeline, pc = "collect" when the         *)
(* consumer is list(chunk_text(text, max_chars))), and every yield hands   *)
(* control back.  An uncaught Python exception ends the run (pc =          *)
(* "failed"): app.py has no try/except.                                    *)
(***************************************************************************)
EXTENDS Integers, Sequences, FiniteSets, TLC

VARIABLES
    doc,          \* the PDF: [readable, pages], pages = what page.extract_text() does
    voice_name,   \* argument of pdf_to_audiobook
    lang_code,    \* argument of pdf_to_audiobook
    pc,           \* position of the consumer (pdf_to_audiobook, or list())
    pidx,         \* extract_text: index of the page the loop is at
    pages,        \* extract_text: the local list `pages`
    full_text,    \* pdf_to_audiobook: `full_text`
    text,         \* chunk_text: argument `text`
    max_chars,    \* chunk_text: argument `max_chars`
    paras,        \* chunk_text: `paras`
    idx,          \* chunk_text: index in paras of the loop variable `p`
    chunk,        \* chunk_text: the accumulator `chunk`
    gpc,          \* chunk_text: position of the generator
    si,           \* chunk_text: the slice loop's `i`
    cmem,         \* history: indices of the paragraphs put into `chunk`
    out,          \* history: every value yielded so far, in order
    cur,          \* pdf_to_audiobook: loop variable `chunk`
    audio_bytes,  \* pdf_to_audiobook: `audio_bytes` (<<>> when unset)
    segment,      \* pdf_to_audiobook: `segment` (<<>> when unset)
    final_audio,  \* pdf_to_audiobook: `final_audio`, a sequence of segments
    calls,        \* history: the synthesize_chunk calls made, in order
    exported,     \* history: the tracks written by final_audio.export
    fail          \* history: where the run failed, [stage, chunk]

vars == <<doc, voice_name, lang_code, pc, pidx, pages, full_text, text,
          max_chars, paras, idx, chunk, gpc, si, cmem, out, cur, audio_bytes,
          segment, final_audio, calls, exported, fail>>

extractVars == <<pidx, pages, full_text>>
genVars == <<text, max_chars, paras, idx, chunk, gpc, si, cmem, out>>
restVars == <<audio_bytes, segment, final_audio, calls, exported>>
audioVars == <<cur, restVars>>
inputVars == <<doc, voice_name, lang_code>>

----------------------------------------------------------------------------
(* Bounds and constants *)

MaxLen == 6
MaxM == 4
MaxPages == 3
MAX_CHARS == 4500

NL == "\n"
Chars == {"a", "b", NL}
SEP == <<NL, NL>>

SeqsUpTo(S, n) == UNION {[1..k -> S] : k \in 0..n}

Texts == SeqsUpTo(Chars, MaxLen)
Budgets == (1..MaxM) \cup {MAX_CHARS}

Min(a, b) == IF a <= b THEN a ELSE b

----------------------------------------------------------------------------
(* str.split("\n\n") and "\n\n".join *)

RECURSIVE SplitFrom(_, _, _)
SplitFrom(s, i, acc) ==
    IF i > Len(s) THEN <<acc>>
    ELSE IF i < Len(s) /\ s[i] = NL /\ s[i + 1] = NL
         THEN <<acc>> \o SplitFrom(s, i + 2, <<>>)
         ELSE SplitFrom(s, i + 1, Append(acc, s[i]))

Split(s) == SplitFrom(s, 1, <<>>)

RECURSIVE Join(_)
Join(ss) ==
    IF ss = <<>> THEN <<>>
    ELSE IF Len(ss) = 1 THEN ss[1]
    ELSE ss[1] \o SEP \o Join(Tail(ss))

----------------------------------------------------------------------------
(* extract_text *)

NoFail == [stage |-> "none", chunk |-> 0]

PageText(t) == [kind |-> "text", txt |-> t]
PageNone == [kind |-> "none", txt |-> <<>>]
PageRaise == [kind |-> "raise", txt |-> <<>>]

PageOutcomes ==
    {PageNone, PageRaise, PageText(<<>>), PageText(<<"a">>),
     PageText(<<"b", "b">>), PageText(<<"a", NL, NL, "b">>)}

Docs ==
    {[readable |-> FALSE, pages |-> <<>>]}
    \cup {[readable |-> TRUE, pages |-> ps] : ps \in SeqsUpTo(PageOutcomes, MaxPages)}

Voices == {"en-US-Wavenet-D", "en-GB-Wavenet-A"}
Langs == {"en-US", "en-GB"}

\* `if txt is not None` instead of `if txt`.
TruthyNotNone(page) == page.kind = "text"

Truthy(page) == page.kind = "text" /\ page.txt # <<>>

OpenDocument ==
    /\ pc = "extract"
    /\ IF doc.readable
       THEN /\ pc' = "pages"
            /\ pidx' = 1
            /\ pages' = <<>>
            /\ fail' = fail
       ELSE /\ pc' = "failed"
            /\ fail' = [stage |-> "extract", chunk |-> 0]
            /\ UNCHANGED <<pidx, pages>>
    /\ UNCHANGED <<full_text, genVars, audioVars, inputVars>>

ExtractPage ==
    /\ pc = "pages"
    /\ pidx <= Len(doc.pages)
    /\ doc.pages[pidx].kind # "raise"
    /\ pages' = IF Truthy(doc.pages[pidx])
                THEN Append(pages, doc.pages[pidx].txt)
                ELSE pages
    /\ pidx' = pidx + 1
    /\ UNCHANGED <<pc, full_text, fail, genVars, audioVars, inputVars>>

ExtractPageRaises ==
    /\ pc = "pages"
    /\ pidx <= Len(doc.pages)
    /\ doc.pages[pidx].kind = "raise"
    /\ pc' = "failed"
    /\ fail' = [stage |-> "extract", chunk |-> 0]
    /\ UNCHANGED <<extractVars, genVars, audioVars, inputVars>>

JoinPages ==
    /\ pc = "pages"
    /\ pidx > Len(doc.pages)
    /\ full_text' = Join(pages)
    /\ pc' = "client"
    /\ UNCHANGED <<pidx, pages, fail, genVars, audioVars, inputVars>>

----------------------------------------------------------------------------
(* chunk_text *)

\* The budget test without the separator's two characters.
FitsNoSeparator(c, p, m) == Len(c) + Len(p) <= m

Fits(c, p, m) == Len(c) + Len(p) + 2 <= m

Glue(c, p) == IF c # <<>> THEN c \o SEP \o p ELSE p

\* `>=` for `>`: a paragraph of exactly max_chars is sliced.
OversizedOrEqual(p, m) == Len(p) >= m

Oversized(p, m) == Len(p) > m

Slice(p, i, m) == SubSeq(p, i + 1, Min(i + m, Len(p)))

\* The consumer is blocked in next(): the generator may run.
Running == pc \in {"next", "collect"}

\* The generator has a current paragraph `p`.
InLoop == idx <= Len(paras)

\* A yield: the value goes to the consumer, which resumes.  list() stores it
\* and asks for the next one at once; the for loop of pdf_to_audiobook binds
\* it to `chunk` and runs its body.
Yield(c) ==
    /\ out' = Append(out, c)
    /\ cur' = c.text
    /\ pc' = IF pc = "collect" THEN "collect" ELSE "synth"

GenStays == UNCHANGED <<pc, cur, out>>

Others == UNCHANGED <<inputVars, extractVars, restVars, fail, text, max_chars>>

SplitParas ==
    /\ Running
    /\ gpc = "start"
    /\ paras' = Split(text)
    /\ chunk' = <<>>
    /\ idx' = 1
    /\ gpc' = "loop"
    /\ UNCHANGED <<si, cmem>>
    /\ GenStays
    /\ Others

AppendPara ==
    /\ Running
    /\ gpc = "loop"
    /\ InLoop
    /\ Fits(chunk, paras[idx], max_chars)
    /\ chunk' = Glue(chunk, paras[idx])
    /\ cmem' = cmem \cup {idx}
    /\ idx' = idx + 1
    /\ UNCHANGED <<paras, gpc, si>>
    /\ GenStays
    /\ Others

FlushChunk ==
    /\ Running
    /\ gpc = "loop"
    /\ InLoop
    /\ ~Fits(chunk, paras[idx], max_chars)
    /\ Yield([text |-> chunk, kind |-> "flush", mem |-> cmem, para |-> 0, off |-> 0])
    /\ gpc' = "flushed"
    /\ si' = 0
    /\ UNCHANGED <<paras, idx, chunk, cmem>>
    /\ Others

YieldSlice ==
    /\ Running
    /\ gpc \in {"flushed", "slicing"}
    /\ Oversized(paras[idx], max_chars)
    /\ si < Len(paras[idx])
    /\ Yield([text |-> Slice(paras[idx], si, max_chars), kind |-> "slice",
              mem |-> {}, para |-> idx, off |-> si])
    /\ si' = si + max_chars
    /\ gpc' = "slicing"
    /\ UNCHANGED <<paras, idx, chunk, cmem>>
    /\ Others

EndSlices ==
    /\ Running
    /\ gpc = "slicing"
    /\ si >= Len(paras[idx])
    /\ chunk' = <<>>
    /\ cmem' = {}
    /\ idx' = idx + 1
    /\ gpc' = "loop"
    /\ UNCHANGED <<paras, si>>
    /\ GenStays
    /\ Others

StartNewChunk ==
    /\ Running
    /\ gpc = "flushed"
    /\ ~Oversized(paras[idx], max_chars)
    /\ chunk' = paras[idx]
    /\ cmem' = {idx}
    /\ idx' = idx + 1
    /\ gpc' = "loop"
    /\ UNCHANGED <<paras, si>>
    /\ GenStays
    /\ Others

YieldTail ==
    /\ Running
    /\ gpc = "loop"
    /\ ~InLoop
    /\ chunk # <<>>
    /\ Yield([text |-> chunk, kind |-> "tail", mem |-> cmem, para |-> 0, off |-> 0])
    /\ gpc' = "tail"
    /\ UNCHANGED <<paras, idx, chunk, si, cmem>>
    /\ Others

StopIteration ==
    /\ Running
    /\ \/ gpc = "tail"
       \/ gpc = "loop" /\ ~InLoop /\ chunk = <<>>
    /\ gpc' = "done"
    /\ pc' = IF pc = "collect" THEN "collected" ELSE "export"
    /\ UNCHANGED <<paras, idx, chunk, si, cmem, cur, out>>
    /\ Others

----------------------------------------------------------------------------
(* synthesize_chunk and pdf_to_audiobook *)

\* What the service answers to one request, and what decoding it gives.
Audio(t, v, l) == [encoding |-> "mp3", text |-> t, voice |-> v, lang |-> l]

Decoded(b) == [format |-> "mp3", samples |-> b.text, voice |-> b.voice, lang |-> b.lang]

Request(t, v, l) == [text |-> t, voice |-> v, lang |-> l]

\* The segment put in front of the track.
ConcatInFront(track, seg) == seg \o track

Concat(track, seg) == track \o seg

Raise(stage) ==
    /\ pc' = "failed"
    /\ fail' = [stage |-> stage, chunk |-> Len(out)]

InitClient ==
    /\ pc = "client"
    /\ final_audio' = <<>>
    /\ text' = full_text
    /\ gpc' = "start"
    /\ pc' = "next"
    /\ UNCHANGED <<inputVars, extractVars, fail, max_chars, paras, idx, chunk,
                   si, cmem, out, cur, audio_bytes, segment, calls, exported>>

InitClientFails ==
    /\ pc = "client"
    /\ Raise("client")
    /\ UNCHANGED <<inputVars, extractVars, genVars, audioVars>>

Synthesize ==
    /\ pc = "synth"
    /\ calls' = Append(calls, Request(cur, voice_name, lang_code))
    /\ audio_bytes' = <<Audio(cur, voice_name, lang_code)>>
    /\ pc' = "decode"
    /\ UNCHANGED <<inputVars, extractVars, genVars, fail, cur, segment,
                   final_audio, exported>>

\* The failure caught and the loop carried on.
SynthesizeFailsSwallowed ==
    /\ pc = "synth"
    /\ calls' = Append(calls, Request(cur, voice_name, lang_code))
    /\ fail' = [stage |-> "synth", chunk |-> Len(out)]
    /\ pc' = "next"
    /\ UNCHANGED <<inputVars, extractVars, genVars, cur, audio_bytes, segment,
                   final_audio, exported>>

SynthesizeFails ==
    /\ pc = "synth"
    /\ calls' = Append(calls, Request(cur, voice_name, lang_code))
    /\ Raise("synth")
    /\ UNCHANGED <<inputVars, extractVars, genVars, cur, audio_bytes, segment,
                   final_audio, exported>>

Decode ==
    /\ pc = "decode"
    /\ segment' = <<Decoded(audio_bytes[1])>>
    /\ pc' = "append"
    /\ UNCHANGED <<inputVars, extractVars, genVars, fail, cur, audio_bytes,
                   final_audio, calls, exported>>

DecodeFails ==
    /\ pc = "decode"
    /\ Raise("decode")
    /\ UNCHANGED <<inputVars, extractVars, genVars, audioVars>>

AppendSegment ==
    /\ pc = "append"
    /\ final_audio' = Concat(final_audio, segment)
    /\ pc' = "next"
    /\ UNCHANGED <<inputVars, extractVars, genVars, fail, cur, audio_bytes,
                   segment, calls, exported>>

Export ==
    /\ pc = "export"
    /\ exported' = Append(exported, final_audio)
    /\ pc' = "done"
    /\ UNCHANGED <<inputVars, extractVars, genVars, fail, cur, audio_bytes,
                   segment, final_audio, calls>>

ExportFails ==
    /\ pc = "export"
    /\ Raise("export")
    /\ UNCHANGED <<inputVars, extractVars, genVars, audioVars>>

----------------------------------------------------------------------------
(* Specifications *)

Unset ==
    /\ pidx = 1
    /\ pages = <<>>
    /\ full_text = <<>>
    /\ paras = <<>>
    /\ idx = 1
    /\ chunk = <<>>
    /\ si = 0
    /\ cmem = {}
    /\ out = <<>>
    /\ cur = <<>>
    /\ audio_bytes = <<>>
    /\ segment = <<>>
    /\ final_audio = <<>>
    /\ calls = <<>>
    /\ exported = <<>>
    /\ fail = NoFail

\* pdf_to_audiobook(pdf_path, output_mp3, voice_name, lang_code).  max_chars
\* is the budget chunk_text gets by default, the module constant MAX_CHARS;
\* the smaller budgets stand for it at the scale of the bounded texts.
Init ==
    /\ doc \in Docs
    /\ voice_name \in Voices
    /\ lang_code \in Langs
    /\ max_chars \in Budgets
    /\ pc = "extract"
    /\ gpc = "none"
    /\ text = <<>>
    /\ Unset

\* list(chunk_text(text, max_chars)) for every text and every budget.
InitChunk ==
    /\ doc = [readable |-> FALSE, pages |-> <<>>]
    /\ voice_name = "en-US-Wavenet-D"
    /\ lang_code = "en-US"
    /\ text \in Texts
    /\ max_chars \in Budgets
    /\ pc = "collect"
    /\ gpc = "start"
    /\ Unset

NextChunk ==
    \/ SplitParas
    \/ AppendPara
    \/ FlushChunk
    \/ YieldSlice
    \/ EndSlices
    \/ StartNewChunk
    \/ YieldTail
    \/ StopIteration

Next ==
    \/ OpenDocument
    \/ ExtractPage
    \/ ExtractPageRaises
    \/ JoinPages
    \/ InitClient
    \/ InitClientFails
    \/ NextChunk
    \/ Synthesize
    \/ SynthesizeFails
    \/ Decode
    \/ DecodeFails
    \/ AppendSegment
    \/ Export
    \/ ExportFails

Spec == Init /\ [][Next]_vars

SpecChunk == InitChunk /\ [][NextChunk]_vars


----------------------------------------------------------------------------
(* Properties of chunk_text (checked under SpecChunk) *)

Done == gpc = "done"

Holders(k) == {i \in DOMAIN out : k \in out[i].mem}

SlicesOf(k) == {i \in DOMAIN out : out[i].kind = "slice" /\ out[i].para = k}

WholeIn(p, t) ==
    \E o \in 0..(Len(t) - Len(p)) : SubSeq(t, o + 1, o + Len(p)) = p

CeilDiv(a, b) == (a + b - 1) \div b

\* C1: every chunk yielded has length <= max_chars, be it an accumulated
\* group of paragraphs, a paragraph that started a new accumulation, or a
\* slice of an oversized paragraph.
C1_ChunkWithinBudget ==
    \A i \in DOMAIN out : Len(out[i].text) <= max_chars

\* C1's case: a finished run that yielded a group of two or more paragraphs
\* filling the budget exactly and a chunk started anew by one paragraph.
C1_Witness ==
    /\ Done
    /\ \E i \in DOMAIN out :
          Cardinality(out[i].mem) >= 2 /\ Len(out[i].text) = max_chars
    /\ \E j \in DOMAIN out :
          Cardinality(out[j].mem) = 1 /\ Len(out[j].text) >= 1

\* The chunks joined again: "\n\n" between two consecutive chunks, nothing
\* between two consecutive slices of one paragraph.
Continues(c) == c.kind = "slice" /\ c.off > 0

RECURSIVE Rejoin(_)
Rejoin(cs) ==
    IF cs = <<>> THEN <<>>
    ELSE IF Len(cs) = 1 THEN cs[1].text
    ELSE cs[1].text \o (IF Continues(cs[2]) THEN <<>> ELSE SEP) \o Rejoin(Tail(cs))

\* C2: the chunks yielded, joined in order with the paragraph separator at
\* paragraph boundaries and nothing inside a sliced paragraph, are FullText
\* exactly: no paragraph lost, no extra chunk.
C2_ChunksReconstructText ==
    Done => Rejoin(out) = text

\* C3: every chunk yielded is non-empty.
C3_ChunksNonEmpty ==
    \A i \in DOMAIN out : Len(out[i].text) >= 1

\* C4: chunk_text("", M) yields no chunk, for every M > 0.
C4_EmptyTextYieldsNothing ==
    text = <<>> => out = <<>>

\* A paragraph of length <= max_chars lies whole in exactly one chunk and is
\* never sliced; one of exactly max_chars is a chunk of its own.
Unsplit(k) ==
    /\ Cardinality(Holders(k)) = 1
    /\ SlicesOf(k) = {}
    /\ \A i \in Holders(k) :
          /\ WholeIn(paras[k], out[i].text)
          /\ Len(paras[k]) = max_chars => out[i].text = paras[k]

\* A paragraph of length L > max_chars is in no accumulated chunk and is
\* yielded as ceil(L / max_chars) consecutive chunks, the j-th being its
\* characters j*max_chars+1 .. (j+1)*max_chars (the last one to L).
Sliced(k) ==
    LET L == Len(paras[k])
        n == CeilDiv(L, max_chars)
    IN  /\ Holders(k) = {}
        /\ Cardinality(SlicesOf(k)) = n
        /\ \E f \in DOMAIN out :
              /\ SlicesOf(k) = f..(f + n - 1)
              /\ \A j \in 0..(n - 1) :
                    /\ out[f + j].text =
                          SubSeq(paras[k], j * max_chars + 1,
                                 Min((j + 1) * max_chars, L))
                    /\ j < n - 1 => Len(out[f + j].text) = max_chars
                    /\ j = n - 1 => Len(out[f + j].text) = L - (n - 1) * max_chars

\* C9 as stated: every paragraph of length <= max_chars, the empty ones
\* included, lies whole in exactly one yielded chunk, and every longer one
\* is sliced into ceil(L / max_chars) chunks.
C9_EveryParagraphInOneChunk ==
    Done => \A k \in DOMAIN paras :
               IF Len(paras[k]) <= max_chars THEN Unsplit(k) ELSE Sliced(k)

\* C9 amended: every non-empty paragraph of length <= max_chars lies whole
\* in exactly one yielded chunk (one of length exactly max_chars is a chunk
\* of its own); an empty paragraph is in at most one chunk and never sliced;
\* every paragraph longer than max_chars is sliced into ceil(L / max_chars)
\* consecutive chunks of max_chars characters, the last one the remainder.
C9_ParagraphsKeptWhole ==
    Done => \A k \in DOMAIN paras :
               IF Len(paras[k]) > max_chars THEN Sliced(k)
               ELSE IF Len(paras[k]) >= 1 THEN Unsplit(k)
               ELSE Cardinality(Holders(k)) <= 1 /\ SlicesOf(k) = {}

\* C9's case: a finished run with a paragraph of exactly max_chars and one
\* of max_chars + 1, the latter yielded as two slices.
C9_Witness ==
    /\ Done
    /\ \E k \in DOMAIN paras : Len(paras[k]) = max_chars /\ Unsplit(k)
    /\ \E k \in DOMAIN paras :
          /\ Len(paras[k]) = max_chars + 1
          /\ Cardinality(SlicesOf(k)) = 2

\* The separator the specification's greedy algorithm counts: 2 when the
\* accumulator is non-empty, 0 when it is empty.
SeparatorLen(c) == IF c = <<>> THEN 0 ELSE 2

\* C10: the code flushes only when the next paragraph does not fit by the
\* specification's test len(accumulator) + len(P) + separator_len <= M; a
\* first paragraph of length M - 1 or M goes into the empty accumulator
\* without a flush.
C10_FlushOnlyWhenOverBudget ==
    gpc = "flushed" =>
        Len(chunk) + Len(paras[idx]) + SeparatorLen(chunk) > max_chars

----------------------------------------------------------------------------
(* Properties of extract_text and pdf_to_audiobook (checked under Spec) *)

Kept(page) == page.kind = "text" /\ Len(page.txt) > 0

\* The texts of the kept pages, in page order, one separator between two
\* consecutive kept texts.
RECURSIVE JoinKept(_)
JoinKept(ps) ==
    IF ps = <<>> THEN <<>>
    ELSE LET rest == JoinKept(Tail(ps))
         IN  IF ~Kept(Head(ps)) THEN rest
             ELSE IF \E i \in 2..Len(ps) : Kept(ps[i])
                  THEN Head(ps).txt \o SEP \o rest
                  ELSE Head(ps).txt

Extracted == pc \notin {"extract", "pages"} /\ fail.stage # "extract"

\* C5: a failure of extraction, of the client's construction, of the
\* synthesis of chunk k or of the decoding of its audio ends the run there:
\* nothing runs after it, no chunk after k was requested or synthesized,
\* and nothing is exported; a track is exported only when every chunk
\* yielded was synthesized, decoded and appended.
C5_FailureAbortsRun ==
    /\ fail.stage # "none" => pc = "failed"
    /\ pc = "failed" =>
          /\ fail.stage # "none"
          /\ exported = <<>>
          /\ ~ENABLED Next
    /\ fail.stage \in {"extract", "client"} => out = <<>> /\ calls = <<>>
    /\ fail.stage \in {"synth", "decode"} =>
          /\ fail.chunk = Len(out)
          /\ Len(calls) = Len(out)
          /\ Len(final_audio) = Len(out) - 1
    /\ exported # <<>> =>
          /\ fail = NoFail
          /\ Done
          /\ Len(calls) = Len(out)
          /\ Len(final_audio) = Len(out)

\* C5's case: the synthesis of the second chunk failed while the chunker
\* still had text to yield.
C5_Witness ==
    /\ pc = "failed"
    /\ fail = [stage |-> "synth", chunk |-> 2]
    /\ gpc # "done"
    /\ InLoop
    /\ Len(final_audio) = 1

C6_Ordering ==
    \* extraction is complete before the chunker exists
    /\ gpc = "none" => out = <<>> /\ calls = <<>>
    /\ gpc # "none" =>
          /\ Extracted
          /\ pc # "client"
          /\ pidx > Len(doc.pages)
          /\ text = full_text
    \* one chunk at a time: the chunker runs only when all it yielded is appended
    /\ Len(final_audio) <= Len(calls)
    /\ Len(calls) <= Len(out)
    /\ Len(out) <= Len(final_audio) + 1
    /\ Running => Len(final_audio) = Len(out)
    \* one call per chunk, each with the run's voice and language
    /\ \A i \in DOMAIN calls :
          calls[i] = Request(out[i].text, voice_name, lang_code)
    \* the track is the audio of the chunks so far, in chunker order
    /\ \A i \in DOMAIN final_audio :
          final_audio[i] = Decoded(Audio(out[i].text, voice_name, lang_code))
    \* export: once, after the last chunk, of the whole track
    /\ pc = "export" => Done /\ Len(final_audio) = Len(out)
    /\ Len(exported) <= 1
    /\ exported # <<>> =>
          /\ pc = "done"
          /\ Done
          /\ exported[1] = final_audio
          /\ Len(final_audio) = Len(out)
    /\ pc = "done" => Len(exported) = 1

TrackGrows ==
    /\ Len(final_audio) <= Len(final_audio')
    /\ SubSeq(final_audio', 1, Len(final_audio)) = final_audio
    /\ voice_name' = voice_name
    /\ lang_code' = lang_code

\* C6: extraction completes before the first chunk is produced; chunk i is
\* synthesized, decoded and appended before chunk i+1 is requested; there is
\* one synthesis call per chunk, each with the same (voice, language); the
\* track only grows by appending; a run that completes exports exactly once,
\* after the last chunk was appended, the concatenation of the audio of
\* chunks 1..n in chunker order, and no run exports more than once.
C6_SequentialPipeline ==
    []C6_Ordering /\ [][TrackGrows]_vars

\* C6's case: a completed run of two or more different chunks, exported.
C6_Witness ==
    /\ pc = "done"
    /\ Len(out) >= 2
    /\ out[1].text # out[2].text
    /\ exported = <<final_audio>>
    /\ Len(final_audio) = Len(out)

\* C7: only a document that cannot be opened or parsed makes extraction
\* fail; a page whose extraction fails is skipped.
C7_PageFailureNotFatal ==
    fail.stage = "extract" => ~doc.readable

\* C8: extract_text returns the non-empty page texts in page order, joined
\* by one "\n\n" between consecutive kept texts; a page with empty or absent
\* text adds neither text nor separator; no extractable text gives "".
C8_ExtractJoinsKeptPages ==
    /\ pc = "pages" => pages = SelectSeq([i \in 1..(pidx - 1) |-> doc.pages[i].txt],
                                         LAMBDA t : t # <<>>)
    /\ Extracted =>
          /\ full_text = JoinKept(doc.pages)
          /\ (\A i \in DOMAIN doc.pages : ~Kept(doc.pages[i])) => full_text = <<>>

\* C8's case: extraction returned for three pages, the middle one of which
\* has empty or absent text.
C8_Witness ==
    /\ pc = "client"
    /\ Len(doc.pages) = 3
    /\ Kept(doc.pages[1])
    /\ ~Kept(doc.pages[2])
    /\ Kept(doc.pages[3])
    /\ full_text = doc.pages[1].txt \o SEP \o doc.pages[3].txt

====
